---- MODULE Spec2Model ----
(***************************************************************************)
(* A model of ftxui::Terminal (src/src/ftxui/screen/terminal.cpp and       *)
(* src/include/ftxui/screen/terminal.hpp): the raw-mode controller         *)
(* (Install / Uninstall / destructor) and the size discovery engine        *)
(* (Size / GetPsuedoTerminalSize / ForceRecalculateSize / SetFallbackSize).*)
(*                                                                         *)
(* Optional values (a unique_ptr that may be null) are sequences of length *)
(* at most one: << >> is nullptr, <<v>> holds v.  Handle 0 is nullptr.     *)
(* tcgetattr / tcsetattr are taken to succeed on a descriptor for which    *)
(* isatty() is true; the code never looks at their return values.          *)
(***************************************************************************)
EXTENDS Integers, Sequences, FiniteSets, TLC

\* ------------------------------------------------------------------ bounds
\* Number of Terminal objects ever constructed in one behaviour.
MaxHandles == 2
\* Most bytes ever pending on one input descriptor.
MaxQueue == 10
\* Most bytes the peer sends in answer to one probe.
MaxPeerBytes == 102

\* ------------------------------------------------------- program constants
STDIN_FILENO == 0
STDOUT_FILENO == 1
\* A descriptor of a pseudo-terminal opened by the embedder.
PtyFd == 3

Handles == 1..MaxHandles
InputFds == {STDIN_FILENO, PtyFd}
OutputFds == {STDOUT_FILENO, PtyFd}
FDs == InputFds \cup OutputFds

\* ------------------------------------------------- line discipline (termios)
\* c_lflag is modelled as the set of local-mode flags that are set; ISIG
\* stands for every flag Install() does not touch.
LFlags == {"ICANON", "ECHO", "ISIG"}
CcValues == {0, 1}
Termios == [c_lflag : SUBSET LFlags, VMIN : CcValues, VTIME : CcValues]

\* The settings a terminal may have before the program touches it.
InitialSettings ==
  { [c_lflag |-> {"ICANON", "ECHO", "ISIG"}, VMIN |-> 1, VTIME |-> 0],
    [c_lflag |-> {"ICANON", "ISIG"},         VMIN |-> 1, VTIME |-> 0],
    [c_lflag |-> {"ECHO", "ISIG"},           VMIN |-> 1, VTIME |-> 1],
    [c_lflag |-> {},                         VMIN |-> 0, VTIME |-> 0] }

\* The settings given to the filler entries of non-terminal descriptors.
DefaultSettings == [c_lflag |-> {"ICANON", "ECHO", "ISIG"}, VMIN |-> 1, VTIME |-> 0]

\* terminal.cpp:211-214: what Install() writes, given what tcgetattr read.
RawOf(t) ==
  [c_lflag |-> t.c_lflag \ {"ICANON", "ECHO"}, VMIN |-> 0, VTIME |-> 0]

\* "Raw mode": canonical input and echo disabled, VMIN = 0, VTIME = 0.
IsRaw(t) ==
  /\ "ICANON" \notin t.c_lflag
  /\ "ECHO" \notin t.c_lflag
  /\ t.VMIN = 0
  /\ t.VTIME = 0

\* ------------------------------------------------------------- dimensions
Dimensions(x, y) == [dimx |-> x, dimy |-> y]

\* terminal.cpp:143-144: the seed of the fallback size.
fallback_width == 80
fallback_height == 24

\* terminal.cpp:250-258: the least size a successful probe is clamped to.
MinCols == 80
MinRows == 24

\* The arguments the embedder passes to SetFallbackSize().
FallbackChoices == { Dimensions(120, 40), Dimensions(0, 0) }

\* ---------------------------------------------------- bytes and the peer
\* Bytes are one-character strings; ESC is 0x1b and HighFF is 0xff, neither
\* printable.
ESC == "ESC"
HighFF == "0xFF"
DigitChars == << "0", "1", "2", "3", "4", "5", "6", "7", "8", "9" >>
IsDigit(c) == \E i \in 1..Len(DigitChars) : DigitChars[i] = c
DigitVal(c) == (CHOOSE i \in 1..Len(DigitChars) : DigitChars[i] = c) - 1

\* terminal.cpp:240: isprint(ch) for the bytes of the model.
isprint(c) == c \notin {ESC, HighFF}

\* The decimal digits of n >= 0, as the peer terminal prints them.
RECURSIVE Decimal(_)
Decimal(n) ==
  IF n < 10 THEN << DigitChars[n + 1] >>
  ELSE Decimal(n \div 10) \o << DigitChars[(n % 10) + 1] >>

\* The cursor position report of a terminal whose bottom-right corner is at
\* (rows, cols): ESC [ rows ; cols R.
Report(rows, cols) ==
  << ESC, "[" >> \o Decimal(rows) \o << ";" >> \o Decimal(cols) \o << "R" >>

\* The sizes of the peer terminals of the model, as << rows, cols >>.
ReportedSizes == { << 24, 80 >>, << 50, 132 >>, << 9, 200 >> }

\* What the peer may send after a probe: nothing, a well-formed report, or a
\* malformed one.
PeerReplies ==
  { Report(rc[1], rc[2]) : rc \in ReportedSizes } \cup
  { << >>,
    << ESC >>,
    << "x", "x" >>,
    << ESC, "[", "2", "4", "R" >>,
    << ESC, "[", "-", "5", ";", " ", "7", "R" >>,
    << HighFF >> \o Report(60, 100) }

\* What ioctl(TIOCGWINSZ) may answer.
IoctlOutcomes == [status : {-1, 0}, ws_col : {0, 132}, ws_row : {0, 50}]

\* ------------------------------------------------------------------- state
VARIABLES
  life,                \* per handle: "unborn", "alive" or "dead"
  storage,             \* per handle: "heap" (new, in Current) or "auto" (Create)
  m_input_fd,          \* per handle
  m_output_fd,         \* per handle
  m_oldTerminalState,  \* per handle: << >> or <<saved termios>>
  g_cached_dimensions, \* per handle: the cached size, 0 x 0 when there is none
  g_currentTerminal,   \* 0 (nullptr) or a handle, possibly a dead one
  g_fallback_size,     \* the static in FallbackSize()
  isatty,              \* per descriptor: is it an interactive terminal
  termios,             \* per input descriptor: the terminal's current settings
  inq,                 \* per input descriptor: bytes received and not yet read
  screenActive,        \* ScreenInteractive::Active() is not null
  charSigned,          \* the build's plain char is signed
  termios0,            \* history: the settings each terminal started with
  call,                \* history: the last operation called and its pre-state
  run,                 \* history: the Install/Uninstall run on one handle
  sz,                  \* history: what the last call did, if it was Size()
  lastSize,            \* history: per handle, how its last Size() resolved
  fallbackSet,         \* history: << >> or the last SetFallbackSize() argument
  g_cached,            \* per handle: the color support has been cached
  g_cached_supported_color, \* per handle: the cached color support
  COLORTERM,           \* the environment variable: << >> or <<its value>>
  TERM,                \* the environment variable: << >> or <<its value>>
  col,                 \* history: the last color call and what it returned
  colorSet,            \* history: per handle, << >> or the last color forced
  rd,                  \* the Read() call in progress or just returned
  lp                   \* the probe's read loop, byte by byte

handleVars == << life, storage, m_input_fd, m_output_fd, g_currentTerminal >>
colorVars == << g_cached, g_cached_supported_color, COLORTERM, TERM, col,
                colorSet >>
ioVars == << rd, lp >>
\* What the handle, raw-mode and size operations leave alone.
envVars == << isatty, charSigned, termios0, colorVars, ioVars >>
sizeVars == << g_fallback_size, inq, screenActive, fallbackSet >>

\* The variables of the handles, the raw-mode controller and the size engine.
coreVars == << life, storage, m_input_fd, m_output_fd, m_oldTerminalState,
               g_cached_dimensions, g_currentTerminal, g_fallback_size, isatty,
               termios, inq, screenActive, charSigned, termios0, call, run, sz,
               lastSize, fallbackSet >>

vars == << coreVars, colorVars, ioVars >>

\* The record of the last call: the operation, the handle it was called on
\* (for Current() and Create(), the handle returned), the pre-state of that
\* handle, and whether the call constructed a Terminal.
NoCall == [op |-> "none", h |-> 0, termBefore |-> << >>, oldBefore |-> << >>,
           rawBefore |-> FALSE, created |-> FALSE]

\* The record of a Size() call: the cache and the fallback it found, what it
\* returned and how (kind), the probe bursts it wrote, whether it read input,
\* what the peer reported (if it sent a well-formed report into an empty
\* queue), whether discovery was unusable, how the handle's previous Size()
\* resolved, what the call just before returned if it was Size() on the same
\* handle, whether the call just before was SetFallbackSize(), what the
\* peer's stream matched, whether raw mode was installed on the active handle
\* when Size() was called, and whether a probe ran with that handle's
\* terminal in raw mode.
NoSize == [cachedBefore |-> Dimensions(0, 0), result |-> Dimensions(0, 0),
           kind |-> "none", bursts |-> 0, readInput |-> FALSE,
           reported |-> << >>, unusable |-> FALSE, prev |-> << >>,
           prevResult |-> << >>, afterSet |-> FALSE,
           matched |-> << >>, noMatch |-> FALSE,
           rawInstalled |-> FALSE, probedRaw |-> FALSE]

\* History: the last raw-mode call on handle h was an Install() that captured
\* the settings, or an Install() following one.
RawInstalledOn(h) ==
  run # << >> /\ run[1].h = h /\ run[1].uninstalls = 0

\* The call record of an operation on handle h, taken in the pre-state.
CallOf(name, h) ==
  [op |-> name, h |-> h,
   termBefore |-> << termios[m_input_fd[h]] >>,
   oldBefore |-> m_oldTerminalState[h],
   rawBefore |-> RawInstalledOn(h),
   created |-> FALSE]

\* The call record of an operation that is not called on a handle.
StaticCallOf(name, h) ==
  [NoCall EXCEPT !.op = name, !.h = h]

Alive(h) == life[h] = "alive"

\* The least handle id not yet used.
FreshHandle == CHOOSE h \in Handles :
                 /\ life[h] = "unborn"
                 /\ \A k \in Handles : life[k] = "unborn" => h <= k

\* terminal.hpp:38-43: enum Color.
Colors == {"Palette1", "Palette16", "Palette256", "TrueColor"}

NoColorCall == [op |-> "none", h |-> 0, result |-> "none", cachedBefore |-> FALSE]

\* terminal.hpp:62, 65: g_cached = false; g_cached_supported_color has no
\* initializer, its value is indeterminate until the first assignment.  The
\* environment sets neither variable.
ColorIdle ==
  /\ g_cached = [h \in Handles |-> FALSE]
  /\ g_cached_supported_color = [h \in Handles |-> "indeterminate"]
  /\ COLORTERM = << >>
  /\ TERM = << >>
  /\ col = NoColorCall
  /\ colorSet = [h \in Handles |-> << >>]

NoRead == [pc |-> "idle", h |-> 0, timeout |-> 0, max |-> 0, ret |-> 0,
           reads |-> 0, hadInput |-> FALSE]

NoLoop == [pc |-> "idle", h |-> 0, input |-> << >>, reads |-> 0]

\* No Read() and no probe in progress.
IoIdle ==
  /\ rd = NoRead
  /\ lp = NoLoop

\* terminal.hpp:58-66 and terminal.cpp:76, 146-149: no Terminal constructed,
\* every static at its initial value.
InitCommon ==
  /\ life = [h \in Handles |-> "unborn"]
  /\ storage = [h \in Handles |-> "auto"]
  /\ m_input_fd = [h \in Handles |-> STDIN_FILENO]
  /\ m_output_fd = [h \in Handles |-> STDOUT_FILENO]
  /\ m_oldTerminalState = [h \in Handles |-> << >>]
  /\ g_cached_dimensions = [h \in Handles |-> Dimensions(0, 0)]
  /\ g_currentTerminal = 0
  /\ g_fallback_size = Dimensions(fallback_width, fallback_height)
  /\ inq = [fd \in InputFds |-> << >>]
  /\ screenActive = FALSE
  /\ termios0 = termios
  /\ call = NoCall
  /\ run = << >>
  /\ sz = NoSize
  /\ lastSize = [h \in Handles |-> << >>]
  /\ fallbackSet = << >>

\* The raw-mode controller: any terminal settings, any kind of descriptor.
InitRaw ==
  /\ isatty \in [FDs -> BOOLEAN]
  /\ termios \in [InputFds -> InitialSettings]
  /\ \A fd \in InputFds : ~isatty[fd] => termios[fd] = DefaultSettings
  /\ charSigned = TRUE
  /\ InitCommon
  /\ ColorIdle
  /\ IoIdle

\* ------------------------------------------------- construction, destruction
\* Terminal::Terminal(int, int), as run for handle h.  (A handle id is used
\* once, so g_cached[h] is still false and nothing was forced on h.)
Construct(h, in, out, where) ==
  /\ life' = [life EXCEPT ![h] = "alive"]
  /\ storage' = [storage EXCEPT ![h] = where]
  /\ m_input_fd' = [m_input_fd EXCEPT ![h] = in]
  /\ m_output_fd' = [m_output_fd EXCEPT ![h] = out]
  /\ m_oldTerminalState' = [m_oldTerminalState EXCEPT ![h] = << >>]
  /\ g_cached_dimensions' = [g_cached_dimensions EXCEPT ![h] = Dimensions(0, 0)]
  /\ lastSize' = [lastSize EXCEPT ![h] = << >>]
  /\ g_currentTerminal' = h

\* terminal.cpp:97: g_currentTerminal == nullptr.
CurrentCreates == g_currentTerminal = 0

\* Terminal::Current(): it creates the singleton when the active-handle
\* reference is null, and returns what the reference points at, alive or not.
Current ==
  IF CurrentCreates
  THEN /\ \E h \in Handles : life[h] = "unborn"
       /\ Construct(FreshHandle, STDIN_FILENO, STDOUT_FILENO, "heap")
       /\ call' = [StaticCallOf("Current", FreshHandle) EXCEPT !.created = TRUE]
       /\ run' = << >>
       /\ sz' = NoSize
       /\ UNCHANGED << termios, envVars, sizeVars >>
  ELSE /\ call' = StaticCallOf("Current", g_currentTerminal)
       /\ sz' = NoSize
       /\ UNCHANGED << handleVars, m_oldTerminalState, g_cached_dimensions,
                       lastSize, run, termios, envVars, sizeVars >>

\* Terminal::Create(inputFd, outputFd).
Create(in, out) ==
  /\ \E h \in Handles : life[h] = "unborn"
  /\ Construct(FreshHandle, in, out, "auto")
  /\ call' = [StaticCallOf("Create", FreshHandle) EXCEPT !.created = TRUE]
  /\ run' = << >>
  /\ sz' = NoSize
  /\ UNCHANGED << termios, envVars, sizeVars >>

\* Terminal::~Terminal(): the terminal settings the destructor leaves.  It
\* only deletes the output stream.
DestructorTermios(h) == termios

\* A handle made by Create() goes out of scope.
Destroy(h) ==
  /\ Alive(h)
  /\ storage[h] = "auto"
  /\ call' = CallOf("Destroy", h)
  /\ termios' = DestructorTermios(h)
  /\ life' = [life EXCEPT ![h] = "dead"]
  /\ m_oldTerminalState' = [m_oldTerminalState EXCEPT ![h] = << >>]
  /\ g_cached_dimensions' = [g_cached_dimensions EXCEPT ![h] = Dimensions(0, 0)]
  /\ lastSize' = [lastSize EXCEPT ![h] = << >>]
  /\ run' = << >>
  /\ sz' = NoSize
  /\ UNCHANGED << storage, m_input_fd, m_output_fd, g_currentTerminal, envVars,
                  sizeVars >>

\* ---------------------------------------------------------------- raw mode
\* The operations are written as functions of the terminal settings tm and
\* the snapshots old, so that WithRestoredIO can chain them inside Size().

\* Install()'s guard, mutated: the handle's snapshot is not looked at.
InstallSkipsNoSnapshotCheck(h, old) == ~isatty[m_input_fd[h]]

\* terminal.cpp:201: Install() returns at once.
InstallSkips(h, old) ==
  old[h] # << >> \/ ~isatty[m_input_fd[h]]

\* terminal.cpp:209, mutated: the snapshot is taken after the flags are cleared.
SnapshotOfModified(t) == RawOf(t)

\* terminal.cpp:209: the snapshot Install() keeps of what tcgetattr read.
SnapshotOf(t) == t

\* terminal.cpp:206-220: the terminal settings after Install().
TermiosAfterInstall(h, tm, old) ==
  IF InstallSkips(h, old) THEN tm
  ELSE [tm EXCEPT ![m_input_fd[h]] = RawOf(tm[m_input_fd[h]])]

\* terminal.cpp:209: the snapshots after Install().
OldAfterInstall(h, tm, old) ==
  IF InstallSkips(h, old) THEN old
  ELSE [old EXCEPT ![h] = << SnapshotOf(tm[m_input_fd[h]]) >>]

\* terminal.cpp:192-196, mutated: without a snapshot, default settings are
\* written to the terminal.
TermiosAfterUninstallNoCheck(h, tm, old) ==
  [tm EXCEPT ![m_input_fd[h]] =
     IF old[h] = << >> THEN DefaultSettings ELSE old[h][1]]

\* terminal.cpp:192-196: the terminal settings after Uninstall().
TermiosAfterUninstall(h, tm, old) ==
  IF old[h] = << >> THEN tm
  ELSE [tm EXCEPT ![m_input_fd[h]] = old[h][1]]

\* terminal.cpp:190-197: the snapshots after Uninstall(): it never resets
\* m_oldTerminalState.
OldAfterUninstall(h, old) == old

\* History: the run "Install (capturing), Install*, Uninstall*" on one handle.
\* The run starts at an Install() called on a handle that holds no snapshot
\* and whose input is a terminal; base is the settings before that call,
\* term1 and old1 the settings and the snapshot after it.
RunAfterInstall(h) ==
  IF RawInstalledOn(h)
  THEN << [run[1] EXCEPT !.installs = 2] >>
  ELSE IF m_oldTerminalState[h] = << >> /\ isatty[m_input_fd[h]]
       THEN << [h |-> h, base |-> termios[m_input_fd[h]],
                term1 |-> termios'[m_input_fd[h]],
                old1 |-> m_oldTerminalState'[h],
                installs |-> 1, uninstalls |-> 0] >>
       ELSE << >>

RunAfterUninstall(h) ==
  IF run # << >> /\ run[1].h = h
  THEN << [run[1] EXCEPT !.uninstalls = IF @ = 0 THEN 1 ELSE 2] >>
  ELSE << >>

\* Terminal::Install().
Install(h) ==
  /\ Alive(h)
  /\ call' = CallOf("Install", h)
  /\ termios' = TermiosAfterInstall(h, termios, m_oldTerminalState)
  /\ m_oldTerminalState' = OldAfterInstall(h, termios, m_oldTerminalState)
  /\ run' = RunAfterInstall(h)
  /\ sz' = NoSize
  /\ UNCHANGED << handleVars, g_cached_dimensions, lastSize, envVars, sizeVars >>

\* Terminal::Uninstall().
Uninstall(h) ==
  /\ Alive(h)
  /\ call' = CallOf("Uninstall", h)
  /\ termios' = TermiosAfterUninstall(h, termios, m_oldTerminalState)
  /\ m_oldTerminalState' = OldAfterUninstall(h, m_oldTerminalState)
  /\ run' = RunAfterUninstall(h)
  /\ sz' = NoSize
  /\ UNCHANGED << handleVars, g_cached_dimensions, lastSize, envVars, sizeVars >>

\* The embedder may bind a handle to the standard streams or to a pty.
CreatePairs == { <<STDIN_FILENO, STDOUT_FILENO>>, <<PtyFd, PtyFd>> }

NextRaw ==
  \/ Current
  \/ \E p \in CreatePairs : Create(p[1], p[2])
  \/ \E h \in Handles : Destroy(h)
  \/ \E h \in Handles : Install(h)
  \/ \E h \in Handles : Uninstall(h)

SpecRaw == InitRaw /\ [][NextRaw]_vars

\* ------------------------------------------------------- size discovery
\* terminal.cpp:225, mutated: the cache is never taken to be set.
CacheValidNever(d) == FALSE

\* terminal.cpp:225, mutated: one non-zero axis is taken for a cached size.
CacheValidEither(d) == d.dimx # 0 \/ d.dimy # 0

\* terminal.cpp:225 and 302: a cached size is present.
CacheValid(d) == d.dimx # 0 /\ d.dimy # 0

\* terminal.cpp:237: EOF == ch.  The byte 0xff equals EOF (-1) only where
\* plain char is signed.
IsEofChar(c) == charSigned /\ c = HighFF

\* terminal.cpp:236-243: the read loop over the bytes q that arrive before
\* Read() times out; input is the accumulated text, rest the bytes left
\* unread.
RECURSIVE ReadLoop(_, _)
ReadLoop(q, acc) ==
  IF q = << >> THEN [input |-> acc, rest |-> << >>]
  ELSE IF Head(q) = "R" THEN [input |-> acc, rest |-> Tail(q)]
  ELSE IF IsEofChar(Head(q)) THEN [input |-> acc, rest |-> Tail(q)]
  ELSE IF isprint(Head(q)) THEN ReadLoop(Tail(q), Append(acc, Head(q)))
  ELSE ReadLoop(Tail(q), acc)

\* sscanf's %d: skip white space, an optional sign, then decimal digits.
RECURSIVE SkipSpace(_, _)
SkipSpace(s, i) ==
  IF i <= Len(s) /\ s[i] = " " THEN SkipSpace(s, i + 1) ELSE i

RECURSIVE DigitsEnd(_, _)
DigitsEnd(s, i) ==
  IF i <= Len(s) /\ IsDigit(s[i]) THEN DigitsEnd(s, i + 1) ELSE i

RECURSIVE NumVal(_, _, _)
NumVal(s, i, e) ==
  IF e <= i THEN 0 ELSE NumVal(s, i, e - 1) * 10 + DigitVal(s[e - 1])

ScanInt(s, i) ==
  LET a == SkipSpace(s, i)
      signed == a <= Len(s) /\ s[a] \in {"-", "+"}
      b == IF signed THEN a + 1 ELSE a
      e == DigitsEnd(s, b)
      v == NumVal(s, b, e)
  IN [ok |-> e > b, atEnd |-> a > Len(s),
      val |-> IF signed /\ s[a] = "-" THEN 0 - v ELSE v,
      next |-> e]

\* terminal.cpp:249: sscanf(input, "[%d;%d", &dimy, &dimx).  n is the value
\* returned; rows is assigned when n >= 1, cols when n = 2.  The digit runs of
\* the model stay far below 2^31.
Sscanf(s) ==
  IF s = << >> THEN [n |-> -1, rows |-> 0, cols |-> 0]
  ELSE IF s[1] # "[" THEN [n |-> 0, rows |-> 0, cols |-> 0]
  ELSE LET r == ScanInt(s, 2) IN
       IF ~r.ok
       THEN [n |-> IF r.atEnd THEN -1 ELSE 0, rows |-> 0, cols |-> 0]
       ELSE IF r.next > Len(s) \/ s[r.next] # ";"
       THEN [n |-> 1, rows |-> r.val, cols |-> 0]
       ELSE LET c == ScanInt(s, r.next + 1) IN
            IF ~c.ok THEN [n |-> 1, rows |-> r.val, cols |-> 0]
            ELSE [n |-> 2, rows |-> r.val, cols |-> c.val]

\* terminal.cpp:250-258: the clamp applied to the parsed size.
ClampCols(x) == IF x < MinCols THEN MinCols ELSE x
ClampRows(y) == IF y < MinRows THEN MinRows ELSE y

\* terminal.cpp:249: what sscanf leaves in g_cached_dimensions: it stores
\* through the pointers as it goes, so a report with only its first number
\* overwrites dimy.
CacheAfterScan(cached, sc) ==
  [dimx |-> IF sc.n = 2 THEN sc.cols ELSE cached.dimx,
   dimy |-> IF sc.n >= 1 THEN sc.rows ELSE cached.dimy]

\* terminal.cpp:250-258, mutated: the clamp is applied to the value returned
\* and not to the cache.
CacheAfterClampUnclamped(scanned) == scanned

\* terminal.cpp:250-258: the clamp is applied to g_cached_dimensions itself.
CacheAfterClamp(scanned) ==
  Dimensions(ClampCols(scanned.dimx), ClampRows(scanned.dimy))

\* Terminal::GetPsuedoTerminalSize() on a handle whose cache is cached and
\* whose input holds q, the peer sending reply after the probe is written.
GetPsuedoTerminalSize(cached, q, reply, fallback) ==
  IF CacheValid(cached)
  THEN [ret |-> cached, cache |-> cached, rest |-> q, wrote |-> FALSE,
        input |-> << >>, kind |-> "cached"]
  ELSE
    LET rl == ReadLoop(q \o reply, << >>)
        sc == Sscanf(rl.input)
        scanned == CacheAfterScan(cached, sc)
        clamped == Dimensions(ClampCols(scanned.dimx), ClampRows(scanned.dimy))
    IN IF rl.input = << >>
       THEN [ret |-> fallback, cache |-> cached, rest |-> rl.rest,
             wrote |-> TRUE, input |-> rl.input, kind |-> "fallback"]
       ELSE IF sc.n = 2
       THEN [ret |-> clamped, cache |-> CacheAfterClamp(scanned), rest |-> rl.rest,
             wrote |-> TRUE, input |-> rl.input, kind |-> "probed"]
       ELSE [ret |-> fallback, cache |-> scanned, rest |-> rl.rest,
             wrote |-> TRUE, input |-> rl.input, kind |-> "fallback"]

\* ScreenInteractive::WithRestoredIO, before the callback: the active
\* handle's raw mode is uninstalled.
WithRestoredIOEnter(tm, old) ==
  [termios |-> TermiosAfterUninstall(g_currentTerminal, tm, old),
   old |-> OldAfterUninstall(g_currentTerminal, old)]

\* ScreenInteractive::WithRestoredIO, after the callback: raw mode is
\* installed again.
WithRestoredIOLeave(tm, old) ==
  [termios |-> TermiosAfterInstall(g_currentTerminal, tm, old),
   old |-> OldAfterInstall(g_currentTerminal, tm, old)]

\* terminal.cpp:296: IsPsuedoTerminal.
IsPsuedoTerminal(h) == m_output_fd[h] # STDOUT_FILENO

\* terminal.cpp:320-336: the console branch of Size().
ConsoleSize(h, io, fallback) ==
  IF ~isatty[m_output_fd[h]] THEN [ret |-> fallback, kind |-> "fallback"]
  ELSE IF io.ws_col = 0 \/ io.ws_row = 0 \/ io.status < 0
  THEN [ret |-> fallback, kind |-> "fallback"]
  ELSE [ret |-> Dimensions(io.ws_col, io.ws_row), kind |-> "console"]

\* History: the text read by a probe cannot be a cursor position report: it
\* lacks the "[", a digit before a ";" or a digit after it.
NotAReport(input) ==
  ~ \E i \in 3..(Len(input) - 1) :
       /\ input[1] = "["
       /\ input[i] = ";"
       /\ \E j \in 2..(i - 1) : IsDigit(input[j])
       /\ \E j \in (i + 1)..Len(input) : IsDigit(input[j])

\* History: the << rows, cols >> the peer reported, when its reply is a
\* well-formed report arriving on an empty queue q.
ReportedBy(q, reply) ==
  IF q = << >> /\ \E rc \in ReportedSizes : reply = Report(rc[1], rc[2])
  THEN << CHOOSE rc \in ReportedSizes : reply = Report(rc[1], rc[2]) >>
  ELSE << >>

\* The sizes a peer's byte stream may carry: those of the peer terminals and
\* the one of the reply that starts with a 0xff byte.
StreamSizes == ReportedSizes \cup { << 60, 100 >> }

\* The bytes of a stream that come before its first 'R'.
BeforeR(s) ==
  LET rs == { i \in 1..Len(s) : s[i] = "R" }
  IN IF rs = {} THEN s
     ELSE SubSeq(s, 1, (CHOOSE i \in rs : \A j \in rs : i <= j) - 1)

\* The printable bytes a peer sent before the 'R'.
PrintableBeforeR(s) == SelectSeq(BeforeR(s), isprint)

\* The text "[<rows>;<cols>" of a report, without ESC and terminator.
PatternOf(rc) == << "[" >> \o Decimal(rc[1]) \o << ";" >> \o Decimal(rc[2])

\* History: the << rows, cols >> of the stream reply arriving on an empty
\* queue q, when its printable bytes before the 'R' are "[<rows>;<cols>".
MatchedBy(q, reply) ==
  IF q = << >>
     /\ \E rc \in StreamSizes : PrintableBeforeR(reply) = PatternOf(rc)
  THEN << CHOOSE rc \in StreamSizes : PrintableBeforeR(reply) = PatternOf(rc) >>
  ELSE << >>

\* History: the stream reply arriving on an empty queue q is empty or its
\* printable bytes before the 'R' cannot be a report.
NoMatchBy(q, reply) ==
  q = << >> /\ NotAReport(PrintableBeforeR(reply))

\* History: the << rows, cols >> the console reported, when the output is a
\* terminal and the window-size query answers with a usable size.
ReportedByConsole(h, io) ==
  IF isatty[m_output_fd[h]] /\ io.status >= 0 /\ io.ws_col > 0 /\ io.ws_row > 0
  THEN << << io.ws_row, io.ws_col >> >>
  ELSE << >>

\* History: raw mode is installed on the active handle: it holds a snapshot
\* and its terminal is in raw mode.
RawOnActive(tm, old) ==
  /\ g_currentTerminal # 0
  /\ old[g_currentTerminal] # << >>
  /\ IsRaw(tm[m_input_fd[g_currentTerminal]])

\* History: the active handle's terminal is in raw mode.
ActiveIsRaw(tm) ==
  g_currentTerminal # 0 /\ IsRaw(tm[m_input_fd[g_currentTerminal]])

\* History: how handle h's last Size() resolved; the result is kept only when
\* it is the cached size.
LastSizeOf(kind, result) ==
  << [kind |-> kind,
      result |-> IF kind \in {"probed", "cached"} THEN result
                 ELSE Dimensions(0, 0)] >>

\* Terminal::Size() on handle h: reply1 is what the peer sends after the probe
\* written under WithRestoredIO, reply2 after the probe of line 317, io what
\* the window-size query answers.  (The values computed on the way are bound
\* by \E over singleton sets, so that each is computed once.)
Size(h, reply1, reply2, io) ==
  LET fd == m_input_fd[h]
      cached == g_cached_dimensions[h]
      hit == CacheValid(cached)
      pseudo == IsPsuedoTerminal(h)
      restored == pseudo /\ ~hit /\ screenActive
  IN
  /\ Alive(h)
  /\ screenActive => g_currentTerminal # 0 /\ Alive(g_currentTerminal)
  /\ restored => Len(inq[fd] \o reply1) <= MaxQueue
  /\ \E enter \in { WithRestoredIOEnter(termios, m_oldTerminalState) },
        p1 \in { GetPsuedoTerminalSize(cached, inq[fd], reply1, g_fallback_size) } :
     \E leave \in { WithRestoredIOLeave(enter.termios, enter.old) },
        cache1 \in { IF restored THEN p1.cache ELSE cached },
        q1 \in { IF restored THEN p1.rest ELSE inq[fd] } :
     \E p2 \in { GetPsuedoTerminalSize(cache1, q1, reply2, g_fallback_size) },
        con \in { ConsoleSize(h, io, g_fallback_size) } :
     \E ret \in { IF pseudo THEN p2.ret ELSE con.ret },
        kind \in { IF ~pseudo THEN con.kind
                   ELSE IF hit THEN "cached"
                   ELSE IF p2.kind = "cached" THEN "probed" ELSE p2.kind },
        b1 \in { IF restored /\ p1.wrote THEN 1 ELSE 0 },
        b2 \in { IF pseudo /\ p2.wrote THEN 1 ELSE 0 } :
       /\ b2 = 1 => Len(q1 \o reply2) <= MaxQueue
       /\ call' = CallOf("Size", h)
       /\ termios' = IF restored THEN leave.termios ELSE termios
       /\ m_oldTerminalState' = IF restored THEN leave.old ELSE m_oldTerminalState
       /\ g_cached_dimensions' =
            IF pseudo THEN [g_cached_dimensions EXCEPT ![h] = p2.cache]
            ELSE g_cached_dimensions
       /\ inq' = IF pseudo THEN [inq EXCEPT ![fd] = p2.rest] ELSE inq
       /\ sz' = [cachedBefore |-> cached,
                 result |-> ret,
                 kind |-> kind,
                 bursts |-> b1 + b2,
                 readInput |-> pseudo /\ (b1 = 1 \/ b2 = 1)
                               /\ (inq[fd] \o reply1 \o reply2) # << >>,
                 reported |->
                   IF ~pseudo THEN ReportedByConsole(h, io)
                   ELSE IF b2 = 1 THEN ReportedBy(q1, reply2)
                   ELSE IF b1 = 1 THEN ReportedBy(inq[fd], reply1)
                   ELSE << >>,
                 unusable |->
                   IF pseudo
                   THEN /\ b1 + b2 >= 1
                        /\ b1 = 1 => NotAReport(p1.input)
                        /\ b2 = 1 => NotAReport(p2.input)
                   ELSE \/ ~isatty[m_output_fd[h]]
                        \/ io.status < 0
                        \/ io.ws_col = 0
                        \/ io.ws_row = 0,
                 prev |-> lastSize[h],
                 prevResult |-> IF call.op = "Size" /\ call.h = h
                                THEN << sz.result >> ELSE << >>,
                 afterSet |-> call.op = "SetFallbackSize",
                 matched |->
                   IF b2 = 1 THEN MatchedBy(q1, reply2)
                   ELSE IF b1 = 1 THEN MatchedBy(inq[fd], reply1)
                   ELSE << >>,
                 noMatch |->
                   IF b2 = 1 THEN NoMatchBy(q1, reply2)
                   ELSE IF b1 = 1 THEN NoMatchBy(inq[fd], reply1)
                   ELSE FALSE,
                 rawInstalled |-> RawOnActive(termios, m_oldTerminalState),
                 probedRaw |->
                   \/ b1 = 1 /\ ActiveIsRaw(enter.termios)
                   \/ b2 = 1 /\ ActiveIsRaw(IF restored THEN leave.termios
                                              ELSE termios)]
       /\ lastSize' = [lastSize EXCEPT ![h] = LastSizeOf(kind, ret)]
       /\ run' = << >>
       /\ UNCHANGED << handleVars, envVars, g_fallback_size, screenActive,
                       fallbackSet >>

\* terminal.cpp:343-345, mutated: the argument is only stored when usable.
FallbackAfterSetIfPositive(d) ==
  IF d.dimx > 0 /\ d.dimy > 0 THEN d ELSE g_fallback_size

\* terminal.cpp:344: FallbackSize() = fallbackSize.
FallbackAfterSet(d) == d

\* SetFallbackSize(d).
SetFallbackSize(d) ==
  /\ call' = StaticCallOf("SetFallbackSize", 0)
  /\ g_fallback_size' = FallbackAfterSet(d)
  /\ fallbackSet' = << d >>
  /\ run' = << >>
  /\ sz' = NoSize
  /\ UNCHANGED << handleVars, envVars, m_oldTerminalState, g_cached_dimensions,
                  termios, inq, screenActive, lastSize >>

\* terminal.cpp:270, mutated: the cache is left as it is.
CacheAfterForceKept(d) == d

\* terminal.cpp:270: g_cached_dimensions = {0,0}.
CacheAfterForce(d) == Dimensions(0, 0)

\* Terminal::ForceRecalculateSize().
ForceRecalculateSize(h) ==
  /\ Alive(h)
  /\ call' = CallOf("ForceRecalculateSize", h)
  /\ g_cached_dimensions' =
       [g_cached_dimensions EXCEPT ![h] = CacheAfterForce(@)]
  /\ lastSize' = [lastSize EXCEPT ![h] = LastSizeOf("forced", Dimensions(0, 0))]
  /\ run' = << >>
  /\ sz' = NoSize
  /\ UNCHANGED << handleVars, envVars, sizeVars, m_oldTerminalState, termios >>

\* The UI loop of ScreenInteractive starts or ends: Active() changes.
ScreenLoop(active) ==
  /\ screenActive # active
  /\ active => g_currentTerminal # 0 /\ Alive(g_currentTerminal)
  /\ screenActive' = active
  /\ call' = StaticCallOf("ScreenLoop", 0)
  /\ run' = << >>
  /\ sz' = NoSize
  /\ UNCHANGED << handleVars, envVars, m_oldTerminalState, g_cached_dimensions,
                  termios, inq, g_fallback_size, fallbackSet, lastSize >>

\* The inputs Size() can observe on handle h: a reply to the probe written
\* under WithRestoredIO, a reply to the probe of line 317, an answer of the
\* window-size query.  An input the call does not read is not enumerated.
Replies1(h) ==
  IF IsPsuedoTerminal(h) /\ ~CacheValid(g_cached_dimensions[h]) /\ screenActive
  THEN PeerReplies ELSE { << >> }

Replies2(h) ==
  IF IsPsuedoTerminal(h) /\ ~CacheValid(g_cached_dimensions[h])
  THEN PeerReplies ELSE { << >> }

IoctlChoices(h) ==
  IF ~IsPsuedoTerminal(h) /\ isatty[m_output_fd[h]]
  THEN IoctlOutcomes ELSE { [status |-> -1, ws_col |-> 0, ws_row |-> 0] }

\* A call of Size() on handle h, with whatever the environment answers.
SizeCall(h) ==
  \E r1 \in Replies1(h), r2 \in Replies2(h), io \in IoctlChoices(h) :
     Size(h, r1, r2, io)

\* The size engine, in the state after Terminal::Current() (handle 1, on the
\* standard streams) and Terminal::Create(PtyFd, PtyFd) (handle 2, which the
\* constructor made the current terminal): interactive inputs with the usual
\* cooked settings, the standard output a terminal or redirected, either kind
\* of plain char.
InitHandles ==
  /\ life = [h \in Handles |-> IF h <= 2 THEN "alive" ELSE "unborn"]
  /\ storage = [h \in Handles |-> IF h = 1 THEN "heap" ELSE "auto"]
  /\ m_input_fd = [h \in Handles |-> IF h = 2 THEN PtyFd ELSE STDIN_FILENO]
  /\ m_output_fd = [h \in Handles |-> IF h = 2 THEN PtyFd ELSE STDOUT_FILENO]
  /\ m_oldTerminalState = [h \in Handles |-> << >>]
  /\ g_cached_dimensions = [h \in Handles |-> Dimensions(0, 0)]
  /\ g_currentTerminal = 2
  /\ g_fallback_size = Dimensions(fallback_width, fallback_height)
  /\ isatty \in { f \in [FDs -> BOOLEAN] : f[STDIN_FILENO] /\ f[PtyFd] }
  /\ termios = [fd \in InputFds |-> DefaultSettings]
  /\ inq = [fd \in InputFds |-> << >>]
  /\ screenActive = FALSE
  /\ charSigned \in BOOLEAN
  /\ termios0 = termios
  /\ call = NoCall
  /\ run = << >>
  /\ sz = NoSize
  /\ lastSize = [h \in Handles |-> << >>]
  /\ fallbackSet = << >>

InitSize ==
  /\ InitHandles
  /\ ColorIdle
  /\ IoIdle

NextSize ==
  \/ \E h \in Handles : SizeCall(h)
  \/ \E d \in FallbackChoices : SetFallbackSize(d)
  \/ \E h \in Handles : ForceRecalculateSize(h)
  \/ \E b \in BOOLEAN : ScreenLoop(b)

SpecSize == InitSize /\ [][NextSize]_vars

\* ----------------------------------------------------------- color support
\* Strings are sequences of one-character strings.
S_truecolor == << "t", "r", "u", "e", "c", "o", "l", "o", "r" >>
S_24bit == << "2", "4", "b", "i", "t" >>
S_256 == << "2", "5", "6" >>
S_iterm_truecolor == << "i", "t", "e", "r", "m", "-" >> \o S_truecolor
S_24_bit == << "2", "4", "-", "b", "i", "t" >>
S_xterm == << "x", "t", "e", "r", "m" >>
S_xterm_256color ==
  S_xterm \o << "-" >> \o S_256 \o << "c", "o", "l", "o", "r" >>
S_empty == << >>

\* The values the environment may give to COLORTERM and to TERM; << >> is
\* "not set" (getenv returns nullptr).
ColortermValues ==
  { << >>, << S_empty >>, << S_truecolor >>, << S_24bit >>,
    << S_iterm_truecolor >>, << S_24_bit >>, << S_256 >> }
TermValues == { << >>, << S_xterm >>, << S_xterm_256color >> }

\* terminal.cpp:162 and 176: the build options; the default build defines
\* neither __EMSCRIPTEN__ nor FTXUI_MICROSOFT_TERMINAL_FALLBACK.
EMSCRIPTEN == FALSE
FTXUI_MICROSOFT_TERMINAL_FALLBACK == FALSE

\* terminal.cpp:153-155: Safe.
Safe(c) == IF c = << >> THEN S_empty ELSE c[1]

\* terminal.cpp:158, mutated: the key is only looked for at the start.
ContainsAtStart(s, key) ==
  Len(key) <= Len(s) /\ SubSeq(s, 1, Len(key)) = key

\* terminal.cpp:157-159: Contains: s.find(key) != npos.
Contains(s, key) ==
  \E i \in 0..(Len(s) - Len(key)) : SubSeq(s, i + 1, i + Len(key)) = key

\* terminal.cpp:161-187: ComputeColorSupport.
ComputeColorSupport ==
  LET colorterm == Safe(COLORTERM)
      term == Safe(TERM)
  IN IF EMSCRIPTEN THEN "TrueColor"
     ELSE IF Contains(colorterm, S_24bit) \/ Contains(colorterm, S_truecolor)
     THEN "TrueColor"
     ELSE IF Contains(colorterm, S_256) \/ Contains(term, S_256)
     THEN "Palette256"
     ELSE IF FTXUI_MICROSOFT_TERMINAL_FALLBACK
             /\ term = S_empty /\ colorterm = S_empty
     THEN "TrueColor"
     ELSE "Palette16"

\* Terminal::ColorSupport().
ColorSupport(h) ==
  /\ Alive(h)
  /\ g_cached' = [g_cached EXCEPT ![h] = TRUE]
  /\ g_cached_supported_color' =
       IF g_cached[h] THEN g_cached_supported_color
       ELSE [g_cached_supported_color EXCEPT ![h] = ComputeColorSupport]
  /\ col' = [op |-> "ColorSupport", h |-> h,
             result |-> g_cached_supported_color'[h],
             cachedBefore |-> g_cached[h]]
  /\ UNCHANGED << coreVars, COLORTERM, TERM, colorSet, ioVars >>

\* terminal.cpp:360, mutated: the override does not mark the value cached.
CachedAfterSetKept(b) == b

\* terminal.cpp:360: g_cached = true.
CachedAfterSet(b) == TRUE

\* Terminal::SetColorSupport(color).
SetColorSupport(h, color) ==
  /\ Alive(h)
  /\ g_cached' = [g_cached EXCEPT ![h] = CachedAfterSet(@)]
  /\ g_cached_supported_color' =
       [g_cached_supported_color EXCEPT ![h] = color]
  /\ col' = [op |-> "SetColorSupport", h |-> h, result |-> "none",
             cachedBefore |-> g_cached[h]]
  /\ colorSet' = [colorSet EXCEPT ![h] = << color >>]
  /\ UNCHANGED << coreVars, COLORTERM, TERM, ioVars >>

\* The environment changes (setenv / unsetenv by the embedder).
SetEnv(colorterm, term) ==
  /\ << colorterm, term >> # << COLORTERM, TERM >>
  /\ COLORTERM' = colorterm
  /\ TERM' = term
  /\ col' = [NoColorCall EXCEPT !.op = "SetEnv"]
  /\ UNCHANGED << coreVars, g_cached, g_cached_supported_color, colorSet,
                  ioVars >>

\* The color detector on the two handles of InitHandles, in any environment.
InitColor ==
  /\ InitHandles
  /\ isatty[STDOUT_FILENO]
  /\ charSigned
  /\ g_cached = [h \in Handles |-> FALSE]
  /\ g_cached_supported_color = [h \in Handles |-> "indeterminate"]
  /\ COLORTERM \in ColortermValues
  /\ TERM \in TermValues
  /\ col = NoColorCall
  /\ colorSet = [h \in Handles |-> << >>]
  /\ IoIdle

NextColor ==
  \/ \E h \in Handles : ColorSupport(h)
  \/ \E h \in Handles, c \in Colors : SetColorSupport(h, c)
  \/ \E ct \in ColortermValues, t \in TermValues : SetEnv(ct, t)

SpecColor == InitColor /\ [][NextColor]_vars

\* ------------------------------------------------------------------- Read
\* The timeouts a caller passes to Read(): a negative one, the default of
\* terminal.hpp:46, and the 100 ms of the probe (terminal.cpp:236).
TimeoutChoices == { -1, 0, 100 }

\* The buffer sizes a caller passes to Read().
MaxBytesChoices == { 1, 4 }

\* What may arrive on the input while select() waits.
ArrivalChoices == { << >>, << "k" >>, << "k", "k" >> }

\* terminal.cpp:128: read() on a descriptor with nothing pending suspends the
\* caller until input arrives, unless the descriptor is a terminal in
\* non-canonical mode with VMIN = 0 (what Install() sets, lines 211-214).
ReadSuspends(fd) ==
  \/ ~isatty[fd]
  \/ "ICANON" \in termios[fd].c_lflag
  \/ termios[fd].VMIN > 0

\* terminal.cpp:109-117: WaitForTerminalInput on a queue q, while arriving
\* comes in before the timeout: the descriptor is readable.
WaitForTerminalInput(q, arriving) == (q \o arriving) # << >>

\* terminal.cpp:121: timeoutMilliseconds > 0.
WaitsFirst(timeout) == timeout > 0

Min(a, b) == IF a < b THEN a ELSE b

\* What stays as it is during a Read().
readFrame == << life, storage, m_input_fd, m_output_fd, m_oldTerminalState,
               g_cached_dimensions, g_currentTerminal, g_fallback_size, isatty,
               termios, screenActive, charSigned, termios0, call, run, sz,
               lastSize, fallbackSet, colorVars, lp >>

\* Terminal::Read(buffer, max, timeout) on handle h, up to the point where it
\* returns or is suspended inside read().
Read(h, timeout, max, arriving) ==
  LET fd == m_input_fd[h]
      q == IF WaitsFirst(timeout) THEN inq[fd] \o arriving ELSE inq[fd]
      n == Min(Len(q), max)
      this == [NoRead EXCEPT !.h = h, !.timeout = timeout, !.max = max]
  IN
  /\ Alive(h)
  /\ rd.pc # "suspended"
  /\ Len(q) <= MaxQueue
  /\ IF WaitsFirst(timeout) /\ ~WaitForTerminalInput(inq[fd], arriving)
     THEN /\ rd' = [this EXCEPT !.pc = "returned", !.ret = 0]
          /\ inq' = inq
     ELSE IF q # << >>
     THEN /\ rd' = [this EXCEPT !.pc = "returned", !.ret = n, !.reads = 1,
                                 !.hadInput = TRUE]
          /\ inq' = [inq EXCEPT ![fd] = SubSeq(q, n + 1, Len(q))]
     ELSE IF ReadSuspends(fd)
     THEN /\ rd' = [this EXCEPT !.pc = "suspended", !.reads = 1]
          /\ inq' = inq
     ELSE /\ rd' = [this EXCEPT !.pc = "returned", !.ret = 0, !.reads = 1]
          /\ inq' = inq
  /\ UNCHANGED readFrame

\* A call of Read() on handle h.
ReadCall(h) ==
  \E t \in TimeoutChoices, m \in MaxBytesChoices, a \in ArrivalChoices :
     /\ (~WaitsFirst(t) => a = << >>)
     /\ Read(h, t, m, a)

\* terminal.cpp:128: input arrives for a caller suspended inside read(),
\* which returns it.
ReadResumes(arriving) ==
  LET fd == m_input_fd[rd.h]
      n == Min(Len(arriving), rd.max)
  IN
  /\ rd.pc = "suspended"
  /\ arriving # << >>
  /\ rd' = [rd EXCEPT !.pc = "returned", !.ret = n, !.hadInput = TRUE]
  /\ inq' = [inq EXCEPT ![fd] = SubSeq(arriving, n + 1, Len(arriving))]
  /\ UNCHANGED readFrame

\* The peer sends a byte while no Read() is in progress.
PeerSends(fd) ==
  /\ rd.pc # "suspended"
  /\ Len(inq[fd]) < MaxQueue
  /\ inq' = [inq EXCEPT ![fd] = Append(@, "k")]
  /\ rd' = NoRead
  /\ UNCHANGED readFrame

\* Read() on the two handles of InitHandles, the single thread calling
\* Install() and Uninstall() between reads.
InitRead ==
  /\ InitHandles
  /\ isatty[STDOUT_FILENO]
  /\ charSigned
  /\ ColorIdle
  /\ IoIdle

NextRead ==
  \/ \E h \in Handles : ReadCall(h)
  \/ \E a \in ArrivalChoices : ReadResumes(a)
  \/ \E fd \in InputFds : PeerSends(fd)
  \/ \E h \in Handles : rd.pc # "suspended" /\ Install(h)
  \/ \E h \in Handles : rd.pc # "suspended" /\ Uninstall(h)

SpecRead == InitRead /\ [][NextRead]_vars

\* ------------------------------------------- the probe's read loop, stepwise
\* The bytes the peer may send one at a time: a printable one, a
\* non-printable one, the terminator and 0xff.
PeerBytes == { "x", ESC, "R", HighFF }

\* What stays as it is while the probe runs.
probeFrame == << life, storage, m_input_fd, m_output_fd, m_oldTerminalState,
                g_currentTerminal, g_fallback_size, isatty, termios, inq,
                screenActive, charSigned, termios0, call, run, sz, lastSize,
                fallbackSet, colorVars, rd >>

\* terminal.cpp:225-234: GetPsuedoTerminalSize() on handle h finds no cached
\* size, writes the probe and enters the read loop with an empty input.
ProbeStart(h) ==
  /\ lp.pc = "idle"
  /\ Alive(h)
  /\ IsPsuedoTerminal(h)
  /\ ~CacheValid(g_cached_dimensions[h])
  /\ lp' = [pc |-> "reading", h |-> h, input |-> << >>, reads |-> 0]
  /\ UNCHANGED << probeFrame, g_cached_dimensions >>

\* terminal.cpp:236-243: one turn of the loop in which Read(&ch, 1, 100)
\* returns the byte c: 'R' and (where char is signed) 0xff leave the loop, a
\* printable byte is appended to input, any other byte is dropped.
ProbeRead(c) ==
  /\ lp.pc = "reading"
  /\ lp.reads < MaxPeerBytes
  /\ lp' = [lp EXCEPT
             !.reads = @ + 1,
             !.pc = IF c = "R" \/ IsEofChar(c) THEN "done" ELSE "reading",
             !.input = IF c # "R" /\ ~IsEofChar(c) /\ isprint(c)
                       THEN Append(@, c) ELSE @]
  /\ UNCHANGED << probeFrame, g_cached_dimensions >>

\* terminal.cpp:236: Read(&ch, 1, 100) returns 0: the peer sent nothing for
\* 100 ms.
ProbeTimeout ==
  /\ lp.pc = "reading"
  /\ lp' = [lp EXCEPT !.pc = "done"]
  /\ UNCHANGED << probeFrame, g_cached_dimensions >>

\* terminal.cpp:245-265: the text read is parsed and the call returns.
ProbeReturn ==
  /\ lp.pc = "done"
  /\ g_cached_dimensions' =
       [g_cached_dimensions EXCEPT ![lp.h] =
          IF lp.input = << >> THEN @
          ELSE IF Sscanf(lp.input).n = 2
          THEN CacheAfterClamp(CacheAfterScan(@, Sscanf(lp.input)))
          ELSE CacheAfterScan(@, Sscanf(lp.input))]
  /\ lp' = NoLoop
  /\ UNCHANGED probeFrame

InitProbe ==
  /\ InitHandles
  /\ isatty[STDOUT_FILENO]
  /\ ColorIdle
  /\ IoIdle

NextProbe ==
  \/ \E h \in Handles : ProbeStart(h)
  \/ \E c \in PeerBytes : ProbeRead(c)
  \/ ProbeTimeout
  \/ ProbeReturn

SpecProbe == InitProbe /\ [][NextProbe]_vars

\* ------------------------------------------------------ raw-mode properties
\* Exactly one Terminal object has been constructed so far.
OneHandle == Cardinality({h \in Handles : life[h] # "unborn"}) = 1

\* C1: with a single handle on an interactive terminal, after every Install()
\* the terminal is in raw mode and after every Uninstall() it has the settings
\* it started with.
C1_ModeFollowsCalls ==
  (OneHandle /\ call.h # 0 /\ isatty[m_input_fd[call.h]]) =>
     /\ call.op = "Install" => IsRaw(termios[m_input_fd[call.h]])
     /\ call.op = "Uninstall" =>
          termios[m_input_fd[call.h]] = termios0[m_input_fd[call.h]]

\* C2: after an Install() on a handle holding no snapshot, followed at once by
\* one or more Uninstall() calls on that handle, the terminal has exactly the
\* settings it had before the Install().
C2_InstallUninstallRestores ==
  (run # << >> /\ run[1].installs = 1 /\ run[1].uninstalls >= 1) =>
     termios[m_input_fd[run[1].h]] = run[1].base

\* C2 witness: Install() changed the settings and two Uninstall() calls followed.
C2_Witness ==
  /\ run # << >>
  /\ run[1].installs = 1
  /\ run[1].uninstalls = 2
  /\ run[1].term1 # run[1].base
  /\ termios[m_input_fd[run[1].h]] = run[1].base

\* C3: a second Install() in a row leaves the terminal settings and the
\* snapshot as the first one left them, the snapshot still being the settings
\* from before the first Install(), and a following Uninstall() restores those.
C3_InstallIdempotent ==
  (run # << >> /\ run[1].installs = 2) =>
     /\ m_oldTerminalState[run[1].h] = run[1].old1
     /\ m_oldTerminalState[run[1].h] = << run[1].base >>
     /\ run[1].uninstalls = 0 => termios[m_input_fd[run[1].h]] = run[1].term1
     /\ run[1].uninstalls >= 1 => termios[m_input_fd[run[1].h]] = run[1].base

\* C3 witness: Install(), Install(), Uninstall() on a terminal that Install()
\* changes.
C3_Witness ==
  /\ run # << >>
  /\ run[1].installs = 2
  /\ run[1].uninstalls = 1
  /\ run[1].term1 # run[1].base
  /\ termios[m_input_fd[run[1].h]] = run[1].base

\* C4: when a handle on which raw mode is still installed is destroyed, the
\* terminal is put back to the captured settings.
C4_DestroyRestores ==
  (call.op = "Destroy" /\ call.rawBefore) =>
     termios[m_input_fd[call.h]] = call.oldBefore[1]

\* C14: an Install() on a handle whose input is not an interactive terminal,
\* and an Uninstall() on a handle that holds no snapshot, change neither the
\* settings of any terminal nor the snapshot of any handle.
C14_NoOpCallsChangeNothing ==
  [][ /\ (call'.op = "Install" /\ ~isatty[m_input_fd[call'.h]]) =>
           (termios' = termios /\ m_oldTerminalState' = m_oldTerminalState)
      /\ (call'.op = "Uninstall" /\ m_oldTerminalState[call'.h] = << >>) =>
           (termios' = termios /\ m_oldTerminalState' = m_oldTerminalState)
    ]_vars

\* C14 witness: Uninstall() was called on a handle without a snapshot while
\* its terminal was not in the default settings, which are as they were.
C14_Witness ==
  /\ call.op = "Uninstall"
  /\ call.oldBefore = << >>
  /\ m_oldTerminalState[call.h] = << >>
  /\ isatty[m_input_fd[call.h]]
  /\ termios[m_input_fd[call.h]] # DefaultSettings
  /\ << termios[m_input_fd[call.h]] >> = call.termBefore

\* The handles constructed so far, and those made by Current().
Constructed == { h \in Handles : life[h] # "unborn" }
Singletons == { h \in Constructed : storage[h] = "heap" }

\* C16: there is one active handle: a Current() call made when no handle
\* exists creates one on the standard input and output, and every later
\* Current() returns that same handle and creates no other.
C16_CurrentReturnsSingleton ==
  /\ Cardinality(Singletons) <= 1
  /\ call.op = "Current" =>
       /\ call.created =>
            /\ Constructed = { call.h }
            /\ m_input_fd[call.h] = STDIN_FILENO
            /\ m_output_fd[call.h] = STDOUT_FILENO
       /\ \A s \in Singletons : call.h = s

\* C19: a handle holds a snapshot exactly while raw mode is installed on it:
\* none once constructed, one after an Install() on an interactive terminal,
\* none after an Uninstall().
C19_SnapshotIffInstalled ==
  /\ (call.op \in {"Current", "Create"} /\ call.created) =>
       m_oldTerminalState[call.h] = << >>
  /\ (call.op = "Install" /\ isatty[m_input_fd[call.h]]) =>
       m_oldTerminalState[call.h] # << >>
  /\ call.op = "Uninstall" => m_oldTerminalState[call.h] = << >>

\* C20: the active-handle reference is null or points at a handle that has
\* not been destroyed, and Current() never returns a destroyed handle.
C20_ActiveHandleAlive ==
  /\ g_currentTerminal = 0 \/ Alive(g_currentTerminal)
  /\ call.op = "Current" => Alive(call.h)

\* ---------------------------------------------------------- size properties
\* The size a peer at << rows, cols >> makes a probe return: its report, not
\* below 80 columns by 24 rows.
ProbedSize(rc) ==
  Dimensions(IF rc[2] < MinCols THEN MinCols ELSE rc[2],
             IF rc[1] < MinRows THEN MinRows ELSE rc[1])

\* The size a console at << rows, cols >> makes the window-size query return.
ConsoleReported(rc) == Dimensions(rc[2], rc[1])

\* A size with both axes set: what a successful probe leaves in the cache.
BothSet(d) == d.dimx # 0 /\ d.dimy # 0

\* C5: every Dimensions returned by Size() has a width and a height above zero.
C5_SizePositive ==
  call.op = "Size" => (sz.result.dimx > 0 /\ sz.result.dimy > 0)

\* C6: two Size() calls in a row on one handle return identical Dimensions.
C6_ConsecutiveSizesAgree ==
  (call.op = "Size" /\ sz.prevResult # << >>) => sz.result = sz.prevResult[1]

\* C6, amended: when a handle's previous Size() returned a probed or cached
\* size and no ForceRecalculateSize() was called on the handle since, Size()
\* returns the same Dimensions.
C6_SizesAgreeOnceProbed ==
  (call.op = "Size" /\ sz.prev # << >>
     /\ sz.prev[1].kind \in {"probed", "cached"}) =>
     sz.result = sz.prev[1].result

\* C6 witness: a Size() after one that probed a size other than the fallback.
C6_Witness ==
  /\ call.op = "Size"
  /\ sz.prev # << >>
  /\ sz.prev[1].kind = "probed"
  /\ sz.result = sz.prev[1].result
  /\ sz.result # g_fallback_size

\* C7: after SetFallbackSize(d), a Size() call on a handle without a cached
\* size whose discovery is unusable (console: not a terminal, query failed or
\* zero; probe: nothing read that can be a report) returns exactly d.
C7_FallbackReturnedWhenUnusable ==
  (call.op = "Size" /\ fallbackSet # << >> /\ ~BothSet(sz.cachedBefore)
     /\ sz.unusable) =>
     sz.result = fallbackSet[1]

\* C7 witness: a probe read bytes that are no report, after SetFallbackSize()
\* changed the fallback.
C7_Witness ==
  /\ call.op = "Size"
  /\ fallbackSet # << >>
  /\ fallbackSet[1] # Dimensions(fallback_width, fallback_height)
  /\ sz.unusable
  /\ sz.bursts >= 1
  /\ sz.readInput
  /\ sz.result = fallbackSet[1]

\* C8: a Size() call on a handle with a cached size returns it, writes no
\* probe and reads no input; and a cached size changes only by
\* ForceRecalculateSize() on its handle.
C8_CacheHolds ==
  /\ [](  (call.op = "Size" /\ BothSet(sz.cachedBefore)) =>
            /\ sz.result = sz.cachedBefore
            /\ sz.bursts = 0
            /\ ~sz.readInput
            /\ g_cached_dimensions[call.h] = sz.cachedBefore )
  /\ [][ /\ \A h \in Handles :
              (BothSet(g_cached_dimensions[h])
                 /\ g_cached_dimensions'[h] # g_cached_dimensions[h]) =>
                 (call'.op = "ForceRecalculateSize" /\ call'.h = h)
         /\ (call'.op = "Size" /\ BothSet(g_cached_dimensions[call'.h])) =>
               inq' = inq ]_vars

\* C8 witness: a cache hit right after SetFallbackSize() changed the fallback.
C8_Witness ==
  /\ call.op = "Size"
  /\ sz.kind = "cached"
  /\ sz.afterSet
  /\ sz.bursts = 0
  /\ sz.result = sz.cachedBefore
  /\ sz.result # g_fallback_size

\* C9: ForceRecalculateSize() leaves the cache at 0 x 0, and the first Size()
\* after it on a probe-path handle writes the probe again and returns what the
\* peer reports now, or the fallback when nothing usable comes back.
C9_ForceThenReprobe ==
  /\ call.op = "ForceRecalculateSize" =>
       g_cached_dimensions[call.h] = Dimensions(0, 0)
  /\ (call.op = "Size" /\ IsPsuedoTerminal(call.h) /\ sz.prev # << >>
        /\ sz.prev[1].kind = "forced") =>
       /\ sz.bursts >= 1
       /\ sz.reported # << >> => sz.result = ProbedSize(sz.reported[1])
       /\ sz.unusable => sz.result = g_fallback_size

\* C9 witness: after ForceRecalculateSize() the peer reports 50 x 132 and
\* Size() returns it.
C9_Witness ==
  /\ call.op = "Size"
  /\ sz.prev # << >>
  /\ sz.prev[1].kind = "forced"
  /\ sz.reported = << << 50, 132 >> >>
  /\ sz.result = Dimensions(132, 50)
  /\ sz.bursts >= 1

\* C10: a Size() that resolves to the fallback leaves no cached size, and the
\* handle's next Size() attempts discovery again: it returns the real size if
\* discovery now succeeds and the current fallback if it is unusable again.
C10_FallbackNeverCached ==
  /\ (call.op = "Size" /\ sz.kind = "fallback") =>
       ~BothSet(g_cached_dimensions[call.h])
  /\ (call.op = "Size" /\ sz.prev # << >> /\ sz.prev[1].kind = "fallback") =>
       /\ IsPsuedoTerminal(call.h) => sz.bursts >= 1
       /\ sz.reported # << >> =>
            sz.result = IF IsPsuedoTerminal(call.h)
                        THEN ProbedSize(sz.reported[1])
                        ELSE ConsoleReported(sz.reported[1])
       /\ sz.unusable => sz.result = g_fallback_size

\* C10 witness: a probe succeeds on a handle whose previous Size() fell back
\* after reading only the first number of a report.
C10_Witness ==
  /\ call.op = "Size"
  /\ sz.prev # << >>
  /\ sz.prev[1].kind = "fallback"
  /\ sz.cachedBefore.dimy # 0
  /\ sz.kind = "probed"
  /\ sz.reported # << >>

\* C11: whatever bytes the peer sends after a probe: when the printable bytes
\* before the 'R' are "[<rows>;<cols>", Size() returns height rows and width
\* cols, neither below 80 x 24 (so ESC [ 24 ; 80 R gives 80 x 24); when the
\* stream is empty or cannot be a report, it returns the fallback size.
C11_ProbeParsesStream ==
  (call.op = "Size" /\ sz.bursts >= 1) =>
     /\ sz.matched # << >> => sz.result = ProbedSize(sz.matched[1])
     /\ sz.matched = << << 24, 80 >> >> => sz.result = Dimensions(80, 24)
     /\ sz.noMatch => sz.result = g_fallback_size

\* C17: when raw mode is installed on the active handle and Size() probes,
\* no probe burst is written while the terminal is in raw mode, and raw mode
\* is installed again once Size() has returned.
C17_ProbeOutsideRawMode ==
  (call.op = "Size" /\ sz.bursts >= 1 /\ sz.rawInstalled) =>
     /\ ~sz.probedRaw
     /\ RawOnActive(termios, m_oldTerminalState)

\* ---------------------------------------------------------- color properties
\* C12: once SetColorSupport(X) was called on a handle, every ColorSupport()
\* on that handle returns the X of the latest such call, whatever COLORTERM
\* and TERM are or have become.
C12_ForcedColorReturned ==
  (col.op = "ColorSupport" /\ colorSet[col.h] # << >>) =>
     col.result = colorSet[col.h][1]

\* C12 witness: ColorSupport() returns the forced Palette16 although
\* COLORTERM says truecolor.
C12_Witness ==
  /\ col.op = "ColorSupport"
  /\ colorSet[col.h] = << "Palette16" >>
  /\ col.result = "Palette16"
  /\ COLORTERM = << S_truecolor >>

\* The values of the model that mention "24bit" or "truecolor", and those
\* that mention "256", listed by hand.
MentionTrueColor == { << S_truecolor >>, << S_24bit >>, << S_iterm_truecolor >> }
Mention256 == { << S_256 >>, << S_xterm_256color >> }

\* C13: ColorSupport() on a handle with nothing cached returns TrueColor when
\* COLORTERM mentions "24bit" or "truecolor"; otherwise Palette256 when
\* COLORTERM or TERM mentions "256"; otherwise Palette16.
C13_ColorClassified ==
  (col.op = "ColorSupport" /\ ~col.cachedBefore) =>
     col.result =
       IF COLORTERM \in MentionTrueColor THEN "TrueColor"
       ELSE IF COLORTERM \in Mention256 \/ TERM \in Mention256 THEN "Palette256"
       ELSE "Palette16"

\* C13 witness: TERM=xterm-256color without COLORTERM gives Palette256.
C13_Witness ==
  /\ col.op = "ColorSupport"
  /\ ~col.cachedBefore
  /\ COLORTERM = << >>
  /\ TERM = << S_xterm_256color >>
  /\ col.result = "Palette256"

\* ------------------------------------------------------------ I/O properties
\* C15: Read() is never suspended without a bound, whatever the timeout, the
\* default 0 included: when no input comes within the timeout it returns 0,
\* and otherwise it does exactly one read of at most max bytes.
C15_ReadNeverSuspended ==
  /\ rd.pc # "suspended"
  /\ rd.pc = "returned" =>
       /\ ~rd.hadInput => rd.ret = 0
       /\ rd.hadInput => (rd.reads = 1 /\ rd.ret >= 1 /\ rd.ret <= rd.max)

\* C18: the probe's read loop ends whatever the peer does: it stops as soon
\* as the printable characters accumulated exceed the cap of 100, so that it
\* never goes on reading with more than 100 of them.
C18_ReadLoopStopsAtCap ==
  lp.pc = "reading" => Len(lp.input) <= 100

====
